---- MODULE Spec2Model ----
(***************************************************************************)
(* Cadete: natural-language processing pipeline (src/pln.py).              *)
(*                                                                         *)
(* PLN.analisar normalises the parser's output into Sentenca objects,      *)
(* classifies each sentence, extracts its Subject-Verb-Object records and  *)
(* displays the batch.  Tokens are referred to by their indice (0-based,   *)
(* as in the source); a Trecho is the list of the indices of its tokens.   *)
(***************************************************************************)
EXTENDS Integers, Sequences, FiniteSets, TLC

VARIABLES
    sentencas,   \* analisar: the list of Sentenca built by the normaliser
    pc,          \* analisar: number of sentences the for loop has processed
    estado,      \* analisar: "analisando", "fim" (returned) or "erro" (raised)
    erro,        \* the exception that left analisar ("" when none)
    saida,       \* what mostrarAnaliseSintatica has printed, per sentence
    trecho,      \* Trecho.__str__: the tokens of the phrase being rendered
    iStr,        \* Trecho.__str__: number of tokens the loop has consumed
    texto,       \* Trecho.__str__: the local variable texto
    retorno,     \* Trecho.__str__: None, or <<the string returned>>
    opNav,       \* tree navigation: "asc" (upward search) or "desc" (descendants)
    estadoNav,   \* tree navigation: "executando", "retornou" or "RecursionError"
    pilha,       \* tree navigation: the call stack of the recursion
    achados      \* tree navigation: the value returned

vars == <<sentencas, pc, estado, erro, saida, trecho, iStr, texto, retorno,
          opNav, estadoNav, pilha, achados>>

varsAnalise == <<sentencas, pc, estado, erro, saida>>
varsTrecho == <<trecho, iStr, texto, retorno>>
varsNav == <<opNav, estadoNav, pilha, achados>>

(***************************************************************************)
(* Bounds of the model.                                                    *)
(***************************************************************************)
MaxLen == 4          \* tokens per sentence, dependency-tree specification
MaxLenVerbo == 5     \* tokens per sentence, verb-phrase specification
MaxLenTipo == 3      \* tokens per sentence, classification specification
MaxLote == 2         \* sentences per analisar call, batch specification
MaxTrecho == 4       \* tokens per rendered phrase
MaxLenNav == 3       \* tokens per sentence, navigation specification
LimiteRecursao == 6  \* depth at which the interpreter stops a recursion

(***************************************************************************)
(* Module constants of src/pln.py.                                         *)
(***************************************************************************)
TIPO_SENTENCA_DECLARATIVA == 0
TIPO_SENTENCA_CONDICIONAL == 1

RELACOES_OBJETO == <<"dobj", "iobj", "dative">>
RELACOES_OBJETO_DIRETO == <<"dobj">>
RELACOES_OBJETO_INDIRETO == <<"iobj", "dative">>

\* Python's None, for a dependencia (otherwise <<relation, head index>>) and
\* for a tipo (otherwise <<type>>).
None == <<>>

\* x in t, for a tuple t
In(x, t) == \E k \in 1..Len(t) : t[k] = x

\* str.startswith
startswith(s, prefixo) ==
    /\ Len(s) >= Len(prefixo)
    /\ SubSeq(s, 1, Len(prefixo)) = prefixo

\* len(sentenca.tokens); tokens is a function over 0..n-1
NumTokens(tokens) == Cardinality(DOMAIN tokens)

\* An absent phrase (None) and a Trecho holding the token list ts.
Nenhum == [presente |-> FALSE, tokens |-> <<>>]
Trecho(ts) == [presente |-> TRUE, tokens |-> ts]

\* The outcome of a call: a value returned or an exception raised.
Retorna(v) == [erro |-> "", valor |-> v]
Levanta(e) == [erro |-> e, valor |-> None]

(***************************************************************************)
(* Trecho.ordenar: sorted(self.tokens, key = indice), a stable sort.       *)
(***************************************************************************)
RECURSIVE inserir(_, _)
inserir(ordenados, x) ==
    IF ordenados = <<>> THEN <<x>>
    ELSE IF x < Head(ordenados) THEN <<x>> \o ordenados
    ELSE <<Head(ordenados)>> \o inserir(Tail(ordenados), x)

RECURSIVE ordenar(_)
ordenar(ts) ==
    IF ts = <<>> THEN <<>>
    ELSE inserir(ordenar(SubSeq(ts, 1, Len(ts) - 1)), ts[Len(ts)])

(***************************************************************************)
(* Trecho.__str__                                                          *)
(***************************************************************************)
\* texto[:-1]
semUltimo(t) == IF Len(t) = 0 THEN t ELSE SubSeq(t, 1, Len(t) - 1)

\* the iteration without the rule for punctuation
strPassoSemPontuacao(t, token) == t \o token.texto \o " "

\* one iteration of the for loop of __str__
strPasso(t, token) ==
    (IF token.pos = "PUNCT" THEN semUltimo(t) ELSE t) \o token.texto \o " "

RECURSIVE strLoop(_, _, _)
strLoop(tokens, ts, t) ==
    IF ts = <<>> THEN t
    ELSE strLoop(tokens, Tail(ts), strPasso(t, tokens[Head(ts)]))

\* str(trecho) for a Trecho whose token list is ts
str(tokens, ts) == semUltimo(strLoop(tokens, ts, ""))

\* str(x) for a field that is a Trecho or None
strOpcional(tokens, tr) ==
    IF tr.presente THEN str(tokens, tr.tokens) ELSE "None"

(***************************************************************************)
(* PLN.__obterTipoDaSentenca                                               *)
(***************************************************************************)
\* the classification without the test of the first token's POS
obterTipoSemPOS(tokens) ==
    IF NumTokens(tokens) = 0 THEN Levanta("IndexError")
    ELSE IF tokens[0].texto = "if"
    THEN Retorna(TIPO_SENTENCA_CONDICIONAL)
    ELSE IF NumTokens(tokens) < 2
    THEN Levanta("IndexError")
    ELSE IF tokens[1].texto = "case"
    THEN Retorna(TIPO_SENTENCA_CONDICIONAL)
    ELSE Retorna(TIPO_SENTENCA_DECLARATIVA)

obterTipoDaSentenca(tokens) ==
    IF NumTokens(tokens) = 0 THEN Levanta("IndexError")
    ELSE IF tokens[0].pos = "ADP"
    THEN IF tokens[0].texto = "if"
         THEN Retorna(TIPO_SENTENCA_CONDICIONAL)
         ELSE IF NumTokens(tokens) < 2
         THEN Levanta("IndexError")
         ELSE IF tokens[1].texto = "case"
         THEN Retorna(TIPO_SENTENCA_CONDICIONAL)
         ELSE Retorna(TIPO_SENTENCA_DECLARATIVA)
    ELSE Retorna(TIPO_SENTENCA_DECLARATIVA)

(***************************************************************************)
(* PLN.__obterDescendentes: depth-first, in discovery order.               *)
(***************************************************************************)
RECURSIVE obterDescendentes(_, _)
RECURSIVE obterDescendentesLoop(_, _, _)
obterDescendentesLoop(tokens, raiz, i) ==
    IF i >= NumTokens(tokens) THEN <<>>
    ELSE (IF /\ tokens[i].dependencia # None
             /\ tokens[i].dependencia[2] = raiz
          THEN <<i>> \o obterDescendentes(tokens, i)
          ELSE <<>>) \o obterDescendentesLoop(tokens, raiz, i + 1)

obterDescendentes(tokens, raiz) == obterDescendentesLoop(tokens, raiz, 0)

(***************************************************************************)
(* PLN.__extrairSujeitos                                                   *)
(***************************************************************************)
ehNsubj(tokens, i) ==
    /\ tokens[i].dependencia # None
    /\ startswith(tokens[i].dependencia[1], "nsubj")

RECURSIVE extrairSujeitosLoop(_, _)
extrairSujeitosLoop(tokens, i) ==
    IF i >= NumTokens(tokens) THEN <<>>
    ELSE (IF ehNsubj(tokens, i)
          THEN <<Trecho(ordenar(<<i>> \o obterDescendentes(tokens, i)))>>
          ELSE <<>>) \o extrairSujeitosLoop(tokens, i + 1)

extrairSujeitos(tokens) == extrairSujeitosLoop(tokens, 0)

(***************************************************************************)
(* PLN.__buscarAscendenteComPOSEspecifico: None or <<index>>.              *)
(***************************************************************************)
RECURSIVE buscarAscendenteComPOSEspecifico(_, _, _)
buscarAscendenteComPOSEspecifico(tokens, folha, pos) ==
    IF tokens[folha].dependencia # None
    THEN IF tokens[tokens[folha].dependencia[2]].pos = pos
         THEN <<tokens[folha].dependencia[2]>>
         ELSE buscarAscendenteComPOSEspecifico(
                  tokens, tokens[folha].dependencia[2], pos)
    ELSE None

(***************************************************************************)
(* PLN.__obterComplementaresDoVerbo                                        *)
(***************************************************************************)
RECURSIVE obterComplementaresDoVerbo(_, _)
RECURSIVE obterComplementaresLoop(_, _, _)
obterComplementaresLoop(tokens, raiz, i) ==
    IF i >= NumTokens(tokens) - 1 THEN <<>>
    ELSE (IF /\ tokens[i].dependencia # None
             /\ tokens[i].dependencia[2] = raiz
             /\ ~In(tokens[i].dependencia[1], RELACOES_OBJETO)
          THEN <<i>> \o obterComplementaresDoVerbo(tokens, i)
          ELSE <<>>) \o obterComplementaresLoop(tokens, raiz, i + 1)

obterComplementaresDoVerbo(tokens, raiz) ==
    obterComplementaresLoop(tokens, raiz, raiz)

(***************************************************************************)
(* PLN.__obterVerboRelacionadoAoSujeito                                    *)
(***************************************************************************)
\* the first token of the list that satisfies the test, as None or <<index>>
RECURSIVE primeiroNsubj(_, _)
primeiroNsubj(tokens, ts) ==
    IF ts = <<>> THEN None
    ELSE IF ehNsubj(tokens, Head(ts)) THEN <<Head(ts)>>
    ELSE primeiroNsubj(tokens, Tail(ts))

obterVerboRelacionadoAoSujeito(tokens, sujeito) ==
    LET tokenChave == primeiroNsubj(tokens, sujeito.tokens)
    IN  IF tokenChave = None
        THEN Levanta("AttributeError")
        ELSE LET verbo == buscarAscendenteComPOSEspecifico(
                              tokens, tokenChave[1], "VERB")
             IN  IF verbo # None
                 THEN Retorna(Trecho(<<verbo[1]>> \o
                          obterComplementaresDoVerbo(tokens, verbo[1])))
                 ELSE Retorna(Nenhum)

(***************************************************************************)
(* PLN.__obterDescendentesDaDireita                                        *)
(***************************************************************************)
RECURSIVE obterDescendentesDaDireitaLoop(_, _, _)
obterDescendentesDaDireitaLoop(tokens, raiz, i) ==
    IF i >= NumTokens(tokens) THEN <<>>
    ELSE (IF /\ tokens[i].dependencia # None
             /\ tokens[i].pos # "PUNCT"
             /\ tokens[i].dependencia[2] = raiz
          THEN <<i>> \o obterDescendentes(tokens, i)
          ELSE <<>>) \o obterDescendentesDaDireitaLoop(tokens, raiz, i + 1)

obterDescendentesDaDireita(tokens, raiz) ==
    obterDescendentesDaDireitaLoop(tokens, raiz, raiz)

(***************************************************************************)
(* PLN.__obterObjetosRelacionadosAoVerbo                                   *)
(***************************************************************************)
RECURSIVE primeiroVerbo(_, _)
primeiroVerbo(tokens, ts) ==
    IF ts = <<>> THEN None
    ELSE IF tokens[Head(ts)].pos = "VERB" THEN <<Head(ts)>>
    ELSE primeiroVerbo(tokens, Tail(ts))

RECURSIVE filtrarObjetos(_, _, _)
filtrarObjetos(tokens, ts, relacoes) ==
    IF ts = <<>> THEN <<>>
    ELSE (IF /\ tokens[Head(ts)].dependencia # None
             /\ In(tokens[Head(ts)].dependencia[1], relacoes)
          THEN <<Head(ts)>> ELSE <<>>)
         \o filtrarObjetos(tokens, Tail(ts), relacoes)

RECURSIVE complementaresDosObjetos(_, _)
complementaresDosObjetos(tokens, objetos) ==
    IF objetos = <<>> THEN <<>>
    ELSE obterDescendentes(tokens, Head(objetos))
         \o complementaresDosObjetos(tokens, Tail(objetos))

obterObjetosRelacionadosAoVerbo(tokens, verbo, relacoes) ==
    IF ~verbo.presente
    THEN Levanta("AttributeError")   \* None has no attribute 'tokens'
    ELSE LET tokenChave == primeiroVerbo(tokens, verbo.tokens)
         IN  IF tokenChave = None
             THEN Levanta("AttributeError")
             ELSE LET descendentes ==
                          obterDescendentesDaDireita(tokens, tokenChave[1])
                      objetos == filtrarObjetos(tokens, descendentes, relacoes)
                  IN  IF Len(objetos) > 0
                      THEN Retorna(Trecho(ordenar(objetos \o
                               complementaresDosObjetos(tokens, objetos))))
                      ELSE Retorna(Nenhum)

(***************************************************************************)
(* PLN.__extrairSVOs                                                       *)
(***************************************************************************)
SVO(sujeito, verbo, objetoDireto, objetoIndireto) ==
    [sujeito |-> sujeito, verbo |-> verbo,
     objetoDireto |-> objetoDireto, objetoIndireto |-> objetoIndireto]

\* the body of the for loop: the SVO of one subject, or the exception
svoDoSujeito(tokens, sujeito) ==
    LET verbo == obterVerboRelacionadoAoSujeito(tokens, sujeito)
    IN  IF verbo.erro # "" THEN Levanta(verbo.erro)
        ELSE LET od == obterObjetosRelacionadosAoVerbo(
                           tokens, verbo.valor, RELACOES_OBJETO_DIRETO)
             IN  IF od.erro # "" THEN Levanta(od.erro)
                 ELSE LET oi == obterObjetosRelacionadosAoVerbo(
                                    tokens, verbo.valor, RELACOES_OBJETO_INDIRETO)
                      IN  IF oi.erro # "" THEN Levanta(oi.erro)
                          ELSE Retorna(SVO(sujeito, verbo.valor,
                                           od.valor, oi.valor))

RECURSIVE extrairSVOsLoop(_, _, _)
extrairSVOsLoop(tokens, sujeitos, svos) ==
    IF sujeitos = <<>> THEN Retorna(svos)
    ELSE LET svo == svoDoSujeito(tokens, Head(sujeitos))
         IN  IF svo.erro # "" THEN Levanta(svo.erro)
             ELSE extrairSVOsLoop(tokens, Tail(sujeitos),
                                  Append(svos, svo.valor))

extrairSVOs(tokens) == extrairSVOsLoop(tokens, extrairSujeitos(tokens), <<>>)

(***************************************************************************)
(* The parser's output.  A frase is a function over 0..n-1 of palavras     *)
(* [lower_, pos_, dep_, head]; as in spaCy, the root is its own head and   *)
(* the heads of a sentence form one rooted tree.                           *)
(***************************************************************************)
RECURSIVE subir(_, _, _)
subir(h, i, k) == IF k = 0 THEN i ELSE subir(h, h[i], k - 1)

ehArvore(h, n) ==
    /\ Cardinality({i \in 0..(n - 1) : h[i] = i}) = 1
    /\ \A i \in 0..(n - 1) : h[subir(h, i, n)] = subir(h, i, n)

Arvores(n) == {h \in [0..(n - 1) -> 0..(n - 1)] : ehArvore(h, n)}

\* the frases of n palavras drawn from the given classes [lower_, pos_, dep_]
Frases(n, classes) ==
    {[i \in 0..(n - 1) |-> [lower_ |-> c[i].lower_, pos_ |-> c[i].pos_,
                            dep_ |-> c[i].dep_, head |-> h[i]]] :
        <<h, c>> \in {hc \in Arvores(n) \X [0..(n - 1) -> classes] :
            \A i \in 0..(n - 1) :
                (hc[2][i].dep_ = "ROOT") <=> (hc[1][i] = i)}}

ClassesArvore ==
    {[lower_ |-> "runs", pos_ |-> "VERB", dep_ |-> "ROOT"],
     [lower_ |-> "cat", pos_ |-> "NOUN", dep_ |-> "ROOT"],
     [lower_ |-> "he", pos_ |-> "PRON", dep_ |-> "nsubj"],
     [lower_ |-> "fish", pos_ |-> "NOUN", dep_ |-> "dobj"],
     [lower_ |-> "him", pos_ |-> "PRON", dep_ |-> "dative"],
     [lower_ |-> ",", pos_ |-> "PUNCT", dep_ |-> "punct"],
     [lower_ |-> "eat", pos_ |-> "VERB", dep_ |-> "xcomp"],
     [lower_ |-> "fast", pos_ |-> "ADV", dep_ |-> "advmod"]}

ClassesVerbo ==
    {[lower_ |-> "runs", pos_ |-> "VERB", dep_ |-> "ROOT"],
     [lower_ |-> "cat", pos_ |-> "NOUN", dep_ |-> "ROOT"],
     [lower_ |-> "he", pos_ |-> "PRON", dep_ |-> "nsubj"],
     [lower_ |-> "eat", pos_ |-> "VERB", dep_ |-> "xcomp"],
     [lower_ |-> "fast", pos_ |-> "ADV", dep_ |-> "advmod"]}

ClassesTipo ==
    {[lower_ |-> "if", pos_ |-> "ADP", dep_ |-> "mark"],
     [lower_ |-> "if", pos_ |-> "ADP", dep_ |-> "ROOT"],
     [lower_ |-> "in", pos_ |-> "ADP", dep_ |-> "prep"],
     [lower_ |-> "in", pos_ |-> "ADP", dep_ |-> "ROOT"],
     [lower_ |-> "case", pos_ |-> "NOUN", dep_ |-> "pobj"],
     [lower_ |-> "case", pos_ |-> "ADP", dep_ |-> "ROOT"],
     [lower_ |-> "if", pos_ |-> "NOUN", dep_ |-> "nsubjpass"],
     [lower_ |-> "he", pos_ |-> "PRON", dep_ |-> "nsubj"],
     [lower_ |-> "runs", pos_ |-> "VERB", dep_ |-> "ROOT"]}

ClassesLote ==
    {[lower_ |-> "if", pos_ |-> "ADP", dep_ |-> "mark"],
     [lower_ |-> "in", pos_ |-> "ADP", dep_ |-> "ROOT"],
     [lower_ |-> "he", pos_ |-> "PRON", dep_ |-> "nsubj"],
     [lower_ |-> "fish", pos_ |-> "NOUN", dep_ |-> "dobj"],
     [lower_ |-> "cat", pos_ |-> "NOUN", dep_ |-> "ROOT"],
     [lower_ |-> "runs", pos_ |-> "VERB", dep_ |-> "ROOT"]}

(***************************************************************************)
(* PLN.__obterDependenciasDoToken and PLN.__normalizarAnaliseSintatica     *)
(***************************************************************************)
obterDependenciasDoToken(frase, i) ==
    IF frase[i].head # i THEN <<frase[i].dep_, frase[i].head>> ELSE None

Token(frase, i) ==
    [texto |-> frase[i].lower_, pos |-> frase[i].pos_,
     dependencia |-> obterDependenciasDoToken(frase, i)]

Sentenca(tokens) == [tokens |-> tokens, tipo |-> None, svos |-> <<>>]

normalizarAnaliseSintatica(doc) ==
    [k \in 1..Len(doc) |-> Sentenca([i \in DOMAIN doc[k] |-> Token(doc[k], i)])]

(***************************************************************************)
(* PLN.mostrarAnaliseSintatica: the lines printed for each sentence.       *)
(***************************************************************************)
\* sentenca.tokens as the token list of the Trecho a Sentenca is
todosOsTokens(tokens) == [k \in 1..NumTokens(tokens) |-> k - 1]

mostrarSVO(tokens, svo) ==
    [sujeito |-> strOpcional(tokens, svo.sujeito),
     verbo |-> strOpcional(tokens, svo.verbo),
     objetoDireto |-> strOpcional(tokens, svo.objetoDireto),
     objetoIndireto |-> strOpcional(tokens, svo.objetoIndireto)]

mostrarSentenca(s) ==
    [texto |-> str(s.tokens, todosOsTokens(s.tokens)),
     tipo |-> IF s.tipo = <<TIPO_SENTENCA_DECLARATIVA>>
              THEN "Declarativa" ELSE "Condicional",
     svos |-> [j \in 1..Len(s.svos) |-> mostrarSVO(s.tokens, s.svos[j])]]

mostrarAnaliseSintatica(ss) == [k \in 1..Len(ss) |-> mostrarSentenca(ss[k])]

(***************************************************************************)
(* PLN.analisar: the for loop over the sentences, then the display.  An    *)
(* exception raised while a sentence is processed leaves analisar: the     *)
(* loop stops and mostrarAnaliseSintatica is not called.                   *)
(***************************************************************************)
\* the body of the loop for one sentence: the sentence as the body leaves it
\* and the exception that left the body ("" when it completed)
corpoDoLaco(s) ==
    LET tipo == obterTipoDaSentenca(s.tokens)
    IN  IF tipo.erro # ""
        THEN [sentenca |-> s, erro |-> tipo.erro]
        ELSE LET comTipo == [s EXCEPT !.tipo = <<tipo.valor>>]
             IN  IF tipo.valor = TIPO_SENTENCA_DECLARATIVA
                 THEN LET svos == extrairSVOs(s.tokens)
                      IN  IF svos.erro # ""
                          THEN [sentenca |-> comTipo, erro |-> svos.erro]
                          ELSE [sentenca |-> [comTipo EXCEPT !.svos = svos.valor],
                                erro |-> ""]
                 ELSE [sentenca |-> comTipo, erro |-> ""]

analisarSentenca ==
    /\ estado = "analisando"
    /\ pc < Len(sentencas)
    /\ LET r == corpoDoLaco(sentencas[pc + 1])
       IN  /\ r.erro = ""
           /\ sentencas' = [sentencas EXCEPT ![pc + 1] = r.sentenca]
    /\ pc' = pc + 1
    /\ UNCHANGED <<estado, erro, saida>>
    /\ UNCHANGED <<varsTrecho, varsNav>>

analisarLevanta ==
    /\ estado = "analisando"
    /\ pc < Len(sentencas)
    /\ LET r == corpoDoLaco(sentencas[pc + 1])
       IN  /\ r.erro # ""
           /\ sentencas' = [sentencas EXCEPT ![pc + 1] = r.sentenca]
           /\ erro' = r.erro
    /\ estado' = "erro"
    /\ UNCHANGED <<pc, saida>>
    /\ UNCHANGED <<varsTrecho, varsNav>>

analisarMostrar ==
    /\ estado = "analisando"
    /\ pc = Len(sentencas)
    /\ saida' = mostrarAnaliseSintatica(sentencas)
    /\ estado' = "fim"
    /\ UNCHANGED <<sentencas, pc, erro>>
    /\ UNCHANGED <<varsTrecho, varsNav>>

NextAnalise == analisarSentenca \/ analisarLevanta \/ analisarMostrar

\* the variables of the other machines, at rest
TrechoParado == trecho = <<>> /\ iStr = 0 /\ texto = "" /\ retorno = None
NavParada ==
    opNav = "asc" /\ estadoNav = "retornou" /\ pilha = <<>> /\ achados = None

InitAnalise(doc) ==
    /\ sentencas = normalizarAnaliseSintatica(doc)
    /\ pc = 0
    /\ estado = "analisando"
    /\ erro = ""
    /\ saida = <<>>
    /\ TrechoParado
    /\ NavParada

\* one sentence with any dependency tree of up to MaxLen tokens
Init ==
    \E n \in 1..MaxLen : \E frase \in Frases(n, ClassesArvore) :
        InitAnalise(<<frase>>)

Spec == Init /\ [][NextAnalise]_vars

\* one sentence of up to MaxLenVerbo tokens: verbs, subjects and complements
InitVerbo ==
    \E n \in 1..MaxLenVerbo : \E frase \in Frases(n, ClassesVerbo) :
        InitAnalise(<<frase>>)

SpecVerbo == InitVerbo /\ [][NextAnalise]_vars

\* one sentence of up to MaxLenTipo tokens with the words the classifier reads
InitTipo ==
    \E n \in 1..MaxLenTipo : \E frase \in Frases(n, ClassesTipo) :
        InitAnalise(<<frase>>)

SpecTipo == InitTipo /\ [][NextAnalise]_vars

\* a text of up to MaxLote sentences of one or two tokens each
FrasesDeLote == Frases(1, ClassesLote) \cup Frases(2, ClassesLote)

InitLote ==
    \E m \in 1..MaxLote : \E doc \in [1..m -> FrasesDeLote] :
        InitAnalise(doc)

SpecLote == InitLote /\ [][NextAnalise]_vars

(***************************************************************************)
(* Trecho.__str__, one iteration of its loop at a time.                    *)
(***************************************************************************)
TokensDeTrecho ==
    {[texto |-> "he", pos |-> "PRON"],
     [texto |-> "is", pos |-> "VERB"],
     [texto |-> ",", pos |-> "PUNCT"],
     [texto |-> "...", pos |-> "PUNCT"]}

strIterar ==
    /\ retorno = None
    /\ iStr < Len(trecho)
    /\ texto' = strPasso(texto, trecho[iStr + 1])
    /\ iStr' = iStr + 1
    /\ UNCHANGED <<trecho, retorno>>
    /\ UNCHANGED <<varsAnalise, varsNav>>

strRetornar ==
    /\ retorno = None
    /\ iStr = Len(trecho)
    /\ texto' = semUltimo(texto)
    /\ retorno' = <<texto'>>
    /\ UNCHANGED <<trecho, iStr>>
    /\ UNCHANGED <<varsAnalise, varsNav>>

NextTrecho == strIterar \/ strRetornar

AnaliseParada ==
    sentencas = <<>> /\ pc = 0 /\ estado = "fim" /\ erro = "" /\ saida = <<>>

InitTrecho ==
    /\ \E n \in 0..MaxTrecho : trecho \in [1..n -> TokensDeTrecho]
    /\ iStr = 0
    /\ texto = ""
    /\ retorno = None
    /\ AnaliseParada
    /\ NavParada

SpecTrecho == InitTrecho /\ [][NextTrecho]_vars

(***************************************************************************)
(* PLN.__buscarAscendenteComPOSEspecifico and PLN.__obterDescendentes, one *)
(* call or loop iteration at a time, on any head references: the tokens of *)
(* the sentence may refer to one another in a cycle.  pilha holds one      *)
(* frame per active call; the interpreter raises RecursionError when the   *)
(* stack would grow past LimiteRecursao.                                   *)
(***************************************************************************)
Quadro(raiz) == [raiz |-> raiz, i |-> 0, descendentes |-> <<>>]

\* the tokens of the only sentence
tokensNav == sentencas[1].tokens

\* buscarAscendenteComPOSEspecifico(sentenca, folha, "VERB"): one call
ascender ==
    /\ estadoNav = "executando"
    /\ opNav = "asc"
    /\ LET folha == pilha[Len(pilha)].raiz
           dependencia == tokensNav[folha].dependencia
       IN  IF dependencia # None
           THEN IF tokensNav[dependencia[2]].pos = "VERB"
                THEN /\ achados' = <<dependencia[2]>>
                     /\ estadoNav' = "retornou"
                     /\ pilha' = <<>>
                ELSE IF Len(pilha) >= LimiteRecursao
                THEN /\ estadoNav' = "RecursionError"
                     /\ UNCHANGED <<pilha, achados>>
                ELSE /\ pilha' = Append(pilha, Quadro(dependencia[2]))
                     /\ UNCHANGED <<estadoNav, achados>>
           ELSE /\ achados' = None
                /\ estadoNav' = "retornou"
                /\ pilha' = <<>>
    /\ UNCHANGED opNav
    /\ UNCHANGED <<varsAnalise, varsTrecho>>

\* obterDescendentes(sentenca, raiz): one iteration of the for loop, which
\* appends the token and calls obterDescendentes on it, or skips the token
descenderIterar ==
    /\ estadoNav = "executando"
    /\ opNav = "desc"
    /\ LET q == pilha[Len(pilha)]
       IN  /\ q.i < NumTokens(tokensNav)
           /\ IF /\ tokensNav[q.i].dependencia # None
                 /\ tokensNav[q.i].dependencia[2] = q.raiz
              THEN IF Len(pilha) >= LimiteRecursao
                   THEN /\ estadoNav' = "RecursionError"
                        /\ UNCHANGED pilha
                   ELSE /\ pilha' = Append(
                              [pilha EXCEPT ![Len(pilha)].descendentes =
                                                Append(@, q.i)],
                              Quadro(q.i))
                        /\ UNCHANGED estadoNav
              ELSE /\ pilha' = [pilha EXCEPT ![Len(pilha)].i = @ + 1]
                   /\ UNCHANGED estadoNav
    /\ UNCHANGED <<opNav, achados>>
    /\ UNCHANGED <<varsAnalise, varsTrecho>>

\* obterDescendentes: return descendentes to the caller, which concatenates
\* it and goes on with its next token
descenderRetornar ==
    /\ estadoNav = "executando"
    /\ opNav = "desc"
    /\ LET q == pilha[Len(pilha)]
       IN  /\ q.i >= NumTokens(tokensNav)
           /\ IF Len(pilha) = 1
              THEN /\ achados' = q.descendentes
                   /\ estadoNav' = "retornou"
                   /\ pilha' = <<>>
              ELSE /\ pilha' = [SubSeq(pilha, 1, Len(pilha) - 1)
                                   EXCEPT ![Len(pilha) - 1] =
                                       [@ EXCEPT !.descendentes = @ \o q.descendentes,
                                                 !.i = @ + 1]]
                   /\ UNCHANGED <<achados, estadoNav>>
    /\ UNCHANGED opNav
    /\ UNCHANGED <<varsAnalise, varsTrecho>>

NextNav == ascender \/ descenderIterar \/ descenderRetornar

\* tokens whose dependencia is None or refers to any other token
TokensNav(n) ==
    {t \in [0..(n - 1) -> [texto : {"w"}, pos : {"VERB", "NOUN"},
                           dependencia : {None} \cup ({"dep"} \X (0..(n - 1)))]] :
        \A i \in 0..(n - 1) :
            t[i].dependencia # None => t[i].dependencia[2] # i}

InitNav ==
    /\ \E n \in 1..MaxLenNav : \E t \in TokensNav(n) :
           /\ sentencas = <<Sentenca(t)>>
           /\ \E raiz \in 0..(n - 1) : pilha = <<Quadro(raiz)>>
    /\ opNav \in {"asc", "desc"}
    /\ estadoNav = "executando"
    /\ achados = None
    /\ pc = 0 /\ estado = "fim" /\ erro = "" /\ saida = <<>>
    /\ TrechoParado

SpecNav == InitNav /\ [][NextNav]_vars

(***************************************************************************)
(* Vocabulary of the properties.                                           *)
(***************************************************************************)
\* the loop of analisar has completed its body for sentence k
Processada(k) == k <= pc
\* the body of the loop raised on sentence k
Falhou(k) == estado = "erro" /\ k = pc + 1
Tentada(k) == Processada(k) \/ Falhou(k)

Indices(tokens) == DOMAIN tokens
Pos(tokens, i) == tokens[i].pos
TemPai(tokens, i) == tokens[i].dependencia # None
Pai(tokens, i) == tokens[i].dependencia[2]
Relacao(tokens, i) == tokens[i].dependencia[1]

\* the proper ancestors of token i in a well-formed tree
RECURSIVE Ancestrais(_, _)
Ancestrais(tokens, i) ==
    IF TemPai(tokens, i)
    THEN {Pai(tokens, i)} \cup Ancestrais(tokens, Pai(tokens, i))
    ELSE {}

\* the tokens below token r
Descendentes(tokens, r) == {t \in Indices(tokens) : r \in Ancestrais(tokens, t)}

\* the ancestors of i with POS VERB, and the nearest of them as a set
VerbosAcima(tokens, i) ==
    {a \in Ancestrais(tokens, i) : Pos(tokens, a) = "VERB"}
VerboMaisProximo(tokens, i) ==
    {a \in VerbosAcima(tokens, i) :
        VerbosAcima(tokens, i) \ {a} \subseteq Ancestrais(tokens, a)}

\* the tokens whose relation label begins with "nsubj", and the j-th of them
Sujeitos(tokens) ==
    {i \in Indices(tokens) :
        TemPai(tokens, i) /\ Relacao(tokens, i) \in {"nsubj", "nsubjpass"}}
Enesimo(S, j) == CHOOSE x \in S : Cardinality({y \in S : y < x}) = j - 1

Conjunto(ts) == {ts[k] : k \in 1..Len(ts)}
Crescente(ts) == \A a, b \in 1..Len(ts) : a < b => ts[a] < ts[b]

\* the SVO records of the sentences whose processing completed
SVOsProcessados ==
    UNION {{<<k, j>> : j \in 1..Len(sentencas[k].svos)} :
              k \in {k \in 1..Len(sentencas) : Processada(k)}}

(***************************************************************************)
(* C1: for every Declarative sentence with a well-formed tree, assembling  *)
(* the SVOs raises no error and yields exactly one record per token whose  *)
(* relation begins with "nsubj"; the record of a subject token with no     *)
(* VERB ancestor is emitted too, with verb and both objects absent.        *)
(***************************************************************************)
C1_UmSVOPorSujeito ==
    \A k \in 1..Len(sentencas) :
        (Tentada(k) /\ sentencas[k].tipo = <<TIPO_SENTENCA_DECLARATIVA>>) =>
            LET s == sentencas[k]
            IN  /\ ~Falhou(k)
                /\ Len(s.svos) = Cardinality(Sujeitos(s.tokens))
                /\ \A j \in 1..Len(s.svos) :
                       LET suj == Enesimo(Sujeitos(s.tokens), j)
                       IN  /\ suj \in Conjunto(s.svos[j].sujeito.tokens)
                           /\ VerbosAcima(s.tokens, suj) = {} =>
                                  /\ ~s.svos[j].verbo.presente
                                  /\ ~s.svos[j].objetoDireto.presente
                                  /\ ~s.svos[j].objetoIndireto.presente

(***************************************************************************)
(* C5: the verb phrase of every SVO record, as the caller receives and     *)
(* renders it, lists its tokens in ascending index order.                  *)
(***************************************************************************)
C5_VerboEmOrdemCrescente ==
    \A kj \in SVOsProcessados :
        LET svo == sentencas[kj[1]].svos[kj[2]]
        IN  svo.verbo.presente => Crescente(svo.verbo.tokens)

(***************************************************************************)
(* C8: the verb phrase headed by v is exactly v and the tokens reachable   *)
(* from v downward through tokens of index >= v's that are not punctuation *)
(* and carry no object relation, at every position of the sentence, the    *)
(* last included.                                                          *)
(***************************************************************************)
Qualifica(tokens, v, t) ==
    /\ TemPai(tokens, t)
    /\ t >= v
    /\ Pos(tokens, t) # "PUNCT"
    /\ Relacao(tokens, t) \notin {"dobj", "iobj", "dative"}

RECURSIVE Alcancaveis(_, _, _)
Alcancaveis(tokens, v, S) ==
    LET novos == {t \in Indices(tokens) \ S :
                     Qualifica(tokens, v, t) /\ Pai(tokens, t) \in S}
    IN  IF novos = {} THEN S ELSE Alcancaveis(tokens, v, S \cup novos)

C8_ComplementosDoVerbo ==
    \A kj \in SVOsProcessados :
        LET s == sentencas[kj[1]]
            svo == s.svos[kj[2]]
        IN  svo.verbo.presente =>
                Conjunto(svo.verbo.tokens) =
                    Alcancaveis(s.tokens, svo.verbo.tokens[1],
                                {svo.verbo.tokens[1]})

(***************************************************************************)
(* C9: the verb of the record built from subject token s is headed by the  *)
(* nearest proper ancestor of s with POS VERB, and is absent exactly when  *)
(* s has no such ancestor, also when the phrase of s holds other subject   *)
(* tokens.                                                                 *)
(***************************************************************************)
C9_VerboMaisProximoDoSujeito ==
    \A kj \in SVOsProcessados :
        LET s == sentencas[kj[1]]
            svo == s.svos[kj[2]]
            suj == Enesimo(Sujeitos(s.tokens), kj[2])
        IN  /\ svo.verbo.presente <=> VerbosAcima(s.tokens, suj) # {}
            /\ svo.verbo.presente =>
                   {svo.verbo.tokens[1]} = VerboMaisProximo(s.tokens, suj)

(***************************************************************************)
(* C10: an object phrase is the set union of the matched object tokens and *)
(* their descendants, each token at most once, in strictly ascending index *)
(* order; it is absent when no token matches.                              *)
(***************************************************************************)
ObjetosCasados(tokens, verbo, relacoes) ==
    Conjunto(filtrarObjetos(tokens,
        obterDescendentesDaDireita(tokens, primeiroVerbo(tokens, verbo.tokens)[1]),
        relacoes))

FraseDeObjetoCerta(tokens, verbo, relacoes, frase) ==
    LET casados == ObjetosCasados(tokens, verbo, relacoes)
    IN  /\ frase.presente <=> casados # {}
        /\ frase.presente =>
               /\ Crescente(frase.tokens)
               /\ Conjunto(frase.tokens) =
                      casados \cup
                      UNION {Descendentes(tokens, o) : o \in casados}

C10_ObjetosSemRepeticao ==
    \A kj \in SVOsProcessados :
        LET s == sentencas[kj[1]]
            svo == s.svos[kj[2]]
        IN  svo.verbo.presente =>
                /\ FraseDeObjetoCerta(s.tokens, svo.verbo,
                       RELACOES_OBJETO_DIRETO, svo.objetoDireto)
                /\ FraseDeObjetoCerta(s.tokens, svo.verbo,
                       RELACOES_OBJETO_INDIRETO, svo.objetoIndireto)

(***************************************************************************)
(* C2: classifying a sentence of fewer than two tokens never raises and    *)
(* always returns Declarative, whatever the POS and text of its token.     *)
(***************************************************************************)
C2_UmTokenDeclarativa ==
    \A k \in 1..Len(sentencas) :
        (Tentada(k) /\ NumTokens(sentencas[k].tokens) < 2) =>
            /\ ~Falhou(k)
            /\ sentencas[k].tipo = <<TIPO_SENTENCA_DECLARATIVA>>

(***************************************************************************)
(* C6: a sentence of at least two tokens is Conditional exactly when its   *)
(* first token's POS is ADP and (the first token's text is "if" or the     *)
(* second token's text is "case"), Declarative otherwise; a Conditional    *)
(* sentence keeps an empty SVO list, which is what is displayed.           *)
(***************************************************************************)
RegraCondicional(tokens) ==
    /\ tokens[0].pos = "ADP"
    /\ tokens[0].texto = "if" \/ tokens[1].texto = "case"

C6_RegraDeClassificacao ==
    \A k \in 1..Len(sentencas) :
        (Tentada(k) /\ NumTokens(sentencas[k].tokens) >= 2) =>
            LET s == sentencas[k]
            IN  IF RegraCondicional(s.tokens)
                THEN /\ s.tipo = <<TIPO_SENTENCA_CONDICIONAL>>
                     /\ s.svos = <<>>
                     /\ ~Falhou(k)
                     /\ estado = "fim" =>
                            /\ saida[k].tipo = "Condicional"
                            /\ saida[k].svos = <<>>
                ELSE /\ s.tipo = <<TIPO_SENTENCA_DECLARATIVA>>
                     /\ estado = "fim" => saida[k].tipo = "Declarativa"

\* a Conditional sentence that holds a subject under a verb was displayed
C6_Testemunha ==
    /\ estado = "fim"
    /\ \E k \in 1..Len(sentencas) :
           /\ NumTokens(sentencas[k].tokens) >= 2
           /\ RegraCondicional(sentencas[k].tokens)
           /\ \E i \in Sujeitos(sentencas[k].tokens) :
                  VerbosAcima(sentencas[k].tokens, i) # {}
           /\ saida[k].tipo = "Condicional"

(***************************************************************************)
(* C4: when the processing of one sentence of a batch fails, every other   *)
(* sentence of the batch, those after the failing one included, still      *)
(* receives its Type and its SVO list and is still displayed.              *)
(***************************************************************************)
\* the processing of this sentence, taken alone, does not fail
NaoFalha(s) == corpoDoLaco(Sentenca(s.tokens)).erro = ""

C4_FalhaIsolada ==
    estado \in {"fim", "erro"} =>
        \A k \in 1..Len(sentencas) :
            NaoFalha(sentencas[k]) =>
                /\ sentencas[k].tipo # None
                /\ k <= Len(saida)
                /\ saida[k] = mostrarSentenca(sentencas[k])

(***************************************************************************)
(* C7: rendering a phrase yields its tokens' texts in phrase order, each   *)
(* token other than the first preceded by exactly one space unless its POS *)
(* is PUNCT, which attaches to the preceding text; no trailing space; an   *)
(* empty phrase renders as the empty string.                               *)
(***************************************************************************)
RECURSIVE Juncao(_, _)
Juncao(tr, k) ==
    IF k = 0 THEN ""
    ELSE Juncao(tr, k - 1)
         \o (IF k > 1 /\ tr[k].pos # "PUNCT" THEN " " ELSE "")
         \o tr[k].texto

C7_Renderizacao ==
    retorno # None =>
        /\ retorno[1] = Juncao(trecho, Len(trecho))
        /\ trecho = <<>> => retorno[1] = ""
        /\ Len(retorno[1]) > 0 =>
               SubSeq(retorno[1], Len(retorno[1]), Len(retorno[1])) # " "

\* "he is he," has been rendered: words, then a punctuation mark
C7_Testemunha ==
    /\ retorno # None
    /\ Len(trecho) = MaxTrecho
    /\ \A k \in 1..(Len(trecho) - 1) : trecho[k].pos # "PUNCT"
    /\ trecho[Len(trecho)].pos = "PUNCT"

(***************************************************************************)
(* C3: on a sentence whose head references contain a cycle, the descendant *)
(* traversal and the upward search stop after a number of steps bounded by *)
(* the sentence length and report a malformed tree, instead of recursing   *)
(* without bound.                                                          *)
(***************************************************************************)
\* the token k head references above token i, as None or <<index>>
RECURSIVE SobeK(_, _, _)
SobeK(tokens, i, k) ==
    IF k = 0 THEN <<i>>
    ELSE IF TemPai(tokens, i) THEN SobeK(tokens, Pai(tokens, i), k - 1)
    ELSE None

TemCiclo(tokens) ==
    \E i \in Indices(tokens) : \E k \in 1..NumTokens(tokens) :
        SobeK(tokens, i, k) = <<i>>

C3_TravessiaLimitada ==
    (Len(sentencas) = 1 /\ TemCiclo(sentencas[1].tokens)) =>
        /\ Len(pilha) <= NumTokens(sentencas[1].tokens)
        /\ estadoNav # "RecursionError"

====
